---- MODULE Spec2Model ----
(***************************************************************************)
(* Model of the go-logging logger hierarchy (Logger, Get, doLog,           *)
(* Configure) and of the configuration resolver (config.apply,             *)
(* newOutputterConfig, RegisterOutputPlugin, DefaultSetup, CustomSetup).   *)
(*                                                                         *)
(* Go strings are sequences of one-character strings, so that             *)
(* strings.Split and strings.ToUpper are computed character by character. *)
(* *Logger pointers are the integers 1..nodes, 0 is nil.  Goroutines are  *)
(* the elements of Threads; each has a program counter and a frame of     *)
(* locals.                                                                 *)
(***************************************************************************)
EXTENDS Integers, Sequences, FiniteSets, TLC

----------------------------------------------------------------------------
(* Bounds of the model *)

\* most Logger objects ever allocated (Root included)
MaxNodes == 3
\* most logging calls
MaxLogs == 1
\* most calls that attach outputs (config.apply, DefaultSetup)
MaxSetups == 2

\* the goroutines: two that use loggers, one that configures
Threads == {"app1", "app2", "cfg"}

----------------------------------------------------------------------------
(* Strings *)

LowerChars == <<"a","b","c","d","e","f","g","h","i","j","k","l","m",
                "n","o","p","q","r","s","t","u","v","w","x","y","z">>
UpperChars == <<"A","B","C","D","E","F","G","H","I","J","K","L","M",
                "N","O","P","Q","R","S","T","U","V","W","X","Y","Z">>

\* unicode.ToUpper on one character
UpperChar(c) ==
    IF \E i \in 1..Len(LowerChars) : LowerChars[i] = c
    THEN UpperChars[CHOOSE i \in 1..Len(LowerChars) : LowerChars[i] = c]
    ELSE c

\* a conversion that leaves the case as it is
ToUpperExact(s) == s
\* strings.ToUpper
ToUpper(s) == [i \in 1..Len(s) |-> UpperChar(s[i])]

RECURSIVE SplitFrom(_, _, _)
SplitFrom(s, sep, cur) ==
    IF s = <<>> THEN <<cur>>
    ELSE IF Head(s) = sep THEN <<cur>> \o SplitFrom(Tail(s), sep, <<>>)
    ELSE SplitFrom(Tail(s), sep, Append(cur, Head(s)))

\* strings.Split with a one-character separator
Split(s, sep) == SplitFrom(s, sep, <<>>)

\* a Go map lookup: the zero value when the key is missing
Lookup(m, k, zero) == IF k \in DOMAIN m THEN m[k] ELSE zero

----------------------------------------------------------------------------
(* Levels *)

\* the constant expression (-iota * 100) - 1
LevelAt(iota) == (-iota * 100) - 1

\* a sentinel placed below the weakest default level
UndefinedBelowTrace == LevelAt(8)
Undefined == 0
Fatal  == LevelAt(1)
Error  == LevelAt(2)
Warn   == LevelAt(3)
Notice == LevelAt(4)
Info   == LevelAt(5)
Debug  == LevelAt(6)
Trace  == LevelAt(7)

DefaultLevels == {Fatal, Error, Warn, Notice, Info, Debug, Trace}

LevelStrings ==
    (Fatal  :> <<"F","A","T","A","L">>) @@
    (Error  :> <<"E","R","R","O","R">>) @@
    (Warn   :> <<"W","A","R","N">>) @@
    (Notice :> <<"N","O","T","I","C","E">>) @@
    (Info   :> <<"I","N","F","O">>) @@
    (Debug  :> <<"D","E","B","U","G">>) @@
    (Trace  :> <<"T","R","A","C","E">>)

\* filled by init(): the inverse of LevelStrings
ReverseLevelStrings ==
    [s \in {LevelStrings[l] : l \in DOMAIN LevelStrings}
        |-> CHOOSE l \in DOMAIN LevelStrings : LevelStrings[l] = s]

\* the comparison of Logger.Log and of the level-named methods:
\* `if l.Threshold > level { return }`
PassesAbove(threshold, level) == level > threshold
Passes(threshold, level) == ~(threshold > level)

----------------------------------------------------------------------------
(* Names, configuration documents and plugins used as inputs *)

sRoot        == <<"r","o","o","t">>
sLoggers     == <<"l","o","g","g","e","r","s">>
sType        == <<"t","y","p","e">>
sThreshold   == <<"t","h","r","e","s","h","o","l","d">>
sNoPropagate == <<"n","o","p","r","o","p","a","g","a","t","e">>
sMock        == <<"m","o","c","k">>
sSpecial     == <<"s","p","e","c","i","a","l">>
sConsole     == <<"c","o","n","s","o","l","e">>
sFile        == <<"f","i","l","e">>
sFormat      == <<"f","o","r","m","a","t">>
sStream      == <<"s","t","r","e","a","m">>
sStdout      == <<"s","t","d","o","u","t">>
sStderr      == <<"s","t","d","e","r","r">>
sA           == <<"A">>
sAB          == <<"A",".","B">>

\* the document of mockSetup, as the ini parser delivers it: keys and
\* values are trimmed at both ends, the inside of a value is kept
cfgTest ==
    (sLoggers :> (sRoot :> <<"I","N","F","O",","," ","m","o","c","k">>)) @@
    (sMock :> (sType :> sMock))

\* the same document written without a blank after the comma
cfgMock ==
    (sLoggers :> (sRoot :> <<"I","N","F","O",",","m","o","c","k">>)) @@
    (sMock :> (sType :> sMock))

\* the README's nopropagate example, written without blanks
cfgNoProp ==
    (sLoggers :>
        ( (sA :> <<"I","N","F","O",",","c","o","n","s","o","l","e">>) @@
          (sAB :> <<"T","R","A","C","E",",","s","p","e","c","i","a","l",",",
                    "n","o","p","r","o","p","a","g","a","t","e">>) )) @@
    (sConsole :> (sType :> sMock)) @@
    (sSpecial :> (sType :> sSpecial))

\* a later reconfiguration that only changes the root threshold
cfgError ==
    (sLoggers :> (sRoot :> <<"e","r","r","o","r">>))

sBogus   == <<"b","o","g","u","s">>
sLoud    == <<"l","o","u","d">>
sVerbose == <<"v","e","r","b","o","s","e">>
sNowhere == <<"n","o","w","h","e","r","e">>

\* an output section whose type names no registered plugin
cfgBogus ==
    (sLoggers :> (sRoot :> <<"I","N","F","O">>)) @@
    (sMock :> (sType :> sBogus))

\* an output section without a type
cfgNoType ==
    (sLoggers :> (sRoot :> <<"I","N","F","O">>)) @@
    (sMock :> (sThreshold :> <<"I","N","F","O">>))

\* an output section with a threshold that is no level name
cfgBadThreshold ==
    (sLoggers :> (sRoot :> <<"I","N","F","O">>)) @@
    (sMock :> ((sType :> sMock) @@ (sThreshold :> sLoud)))

\* a document without a loggers section
cfgNoLoggers ==
    (sMock :> (sType :> sMock))

\* a loggers entry with a level that is no level name, next to a valid one
cfgBadLevel ==
    (sLoggers :> ((sRoot :> <<"i","n","f","o">>) @@ (sA :> sVerbose)))

\* a loggers entry that names an output no section declares
cfgBadOutput ==
    (sLoggers :> (sRoot :> <<"W","A","R","N",",","m","o","c","k",",",
                             "n","o","w","h","e","r","e">>)) @@
    (sMock :> (sType :> sMock))

\* keys before the first section header: the ini parser files them under ""
cfgGlobal ==
    (<<>> :> (sThreshold :> <<"I","N","F","O">>)) @@
    (sLoggers :> (sRoot :> <<"D","e","b","u","g">>))

\* an output with a threshold of its own
cfgThreshold ==
    (sLoggers :> (sRoot :> <<"I","N","F","O",",","m","o","c","k">>)) @@
    (sMock :> ((sType :> sMock) @@ (sThreshold :> <<"e","r","r","o","r">>)))

\* a logger with an output and nopropagate
cfgDam ==
    (sLoggers :> (sA :> <<"W","A","R","N",",","m","o","c","k",",",
                          "n","o","p","r","o","p","a","g","a","t","e">>)) @@
    (sMock :> (sType :> sMock))

\* the same logger with a level only
cfgOpen ==
    (sLoggers :> (sA :> <<"I","N","F","O">>))

\* the root with two outputs, one of them with a threshold of its own
cfgFilter ==
    (sLoggers :> (sRoot :> <<"I","N","F","O",",","m","o","c","k",",",
                             "s","p","e","c","i","a","l">>)) @@
    (sMock :> ((sType :> sMock) @@ (sThreshold :> <<"e","r","r","o","r">>))) @@
    (sSpecial :> (sType :> sSpecial))

sMsgVar == <<"$","m","s","g">>
sLookup == <<"l","o","o","k","u","p">>
sLogger == <<"l","o","g","g","e","r">>

\* an output built by the plugin that calls Get
cfgLookup ==
    (sLoggers :> (sRoot :> <<"I","N","F","O",",","l","o","o","k","u","p">>)) @@
    (sLookup :> ((sType :> sLookup) @@ (sLogger :> sA)))

\* a console output on the standard output
cfgStdout ==
    (sLoggers :> (sRoot :> <<"I","N","F","O",",","c","o","n","s","o","l","e">>)) @@
    (sConsole :> ((sType :> sConsole) @@ (sStream :> sStdout)
                    @@ (sFormat :> sMsgVar)))

\* a console output whose stream is neither a name nor a number
cfgBadStream ==
    (sLoggers :> (sRoot :> <<"I","N","F","O",",","c","o","n","s","o","l","e">>)) @@
    (sConsole :> ((sType :> sConsole) @@ (sStream :> <<"t","t","y">>)
                    @@ (sFormat :> sMsgVar)))

\* a console output whose template has a "$" before a digit
cfgBadTemplate ==
    (sLoggers :> (sRoot :> <<"I","N","F","O",",","c","o","n","s","o","l","e">>)) @@
    (sConsole :> ((sType :> sConsole) @@ (sStream :> sStderr)
                    @@ (sFormat :> <<"$","1"," ","$","m","s","g">>)))

\* a custom integer level
CustomLevel == 5
\* a custom level below the default levels
Finest == Trace - 50

\* *Logger values
Nil  == 0
Root == 1

\* sync.Mutex: unlocked
Free == "free"

\* a msgSlice registered as a plugin (it is its own Outputter)
MsgSlice(sink) == [kind |-> "msgSlice", sink |-> sink]
\* the plugins registered by init()
consolePlugin == [kind |-> "console", sink |-> "none"]
filePlugin    == [kind |-> "file", sink |-> "none"]
NoPlugin      == [kind |-> "nil", sink |-> "none"]

\* a plugin of the application whose factory calls logging.Get for the
\* logger named by its "logger" option before it returns a msgSlice
lookupPlugin == [kind |-> "lookup", sink |-> "logs"]

\* the RegisterOutputPlugin calls of the callers
regLookup  == <<sLookup, lookupPlugin>>
regMock    == <<sMock, MsgSlice("logs")>>
regSpecial == <<sSpecial, MsgSlice("special")>>

\* The callers of the library: which goroutines use loggers, the names they
\* pass to Get, the levels they log at, and the plugins, documents and
\* document-free setups the configuring goroutine uses.
\* TestMultipleSetup: one logger, the mock plugin, the document set up again
wTest ==
    [users |-> {"app1"}, names |-> {sA}, levels |-> {Info},
     regs |-> {regMock}, cfgs |-> {cfgMock, cfgTest}, bare |-> {}]
\* the README's nopropagate example
wNoProp ==
    [users |-> {"app1"}, names |-> {sAB}, levels |-> {Trace, Info},
     regs |-> {regMock, regSpecial}, cfgs |-> {cfgNoProp}, bare |-> {}]
\* a reconfiguration with another root threshold
wReconf ==
    [users |-> {"app1"}, names |-> {sA}, levels |-> {Info},
     regs |-> {regMock}, cfgs |-> {cfgMock, cfgError}, bare |-> {}]
\* two goroutines calling Get, setup without a document
wUsers ==
    [users |-> {"app1", "app2"}, names |-> {sA, sAB}, levels |-> {},
     regs |-> {}, cfgs |-> {}, bare |-> {"DefaultSetup", "CustomSetup"}]
\* the README's Getting Started: DefaultSetup, default and custom levels
wDefault ==
    [users |-> {"app1"}, names |-> {sA}, levels |-> {Info, CustomLevel},
     regs |-> {}, cfgs |-> {}, bare |-> {"DefaultSetup", "CustomSetup"}]
\* documents that apply rejects, and two it accepts
wErrors ==
    [users |-> {"app1"}, names |-> {sA}, levels |-> {},
     regs |-> {regMock},
     cfgs |-> {cfgBogus, cfgNoType, cfgBadThreshold, cfgNoLoggers, cfgBadLevel,
               cfgBadOutput, cfgGlobal, cfgThreshold},
     bare |-> {}]
\* the console plugin, and logging through what it built
wConsole ==
    [users |-> {"app1"}, names |-> {}, levels |-> {Info},
     regs |-> {}, cfgs |-> {cfgStdout, cfgBadStream, cfgBadTemplate},
     bare |-> {}]
\* a plugin that uses the library from its factory
wPlugin ==
    [users |-> {"app1"}, names |-> {sA}, levels |-> {},
     regs |-> {regLookup}, cfgs |-> {cfgLookup, cfgError}, bare |-> {}]

\* DefaultSetup on a fresh hierarchy, and the lowest levels logged on the root
wFresh ==
    [users |-> {"app1"}, names |-> {}, levels |-> {Debug, Trace, Finest},
     regs |-> {}, cfgs |-> {}, bare |-> {"DefaultSetup"}]
\* logging through an output with a threshold and one without
wFilter ==
    [users |-> {"app1"}, names |-> {}, levels |-> {Info, Error},
     regs |-> {regMock, regSpecial}, cfgs |-> {cfgFilter}, bare |-> {}]
\* Get of the name root and of the empty name, and a root entry
wRoot ==
    [users |-> {"app1"}, names |-> {sRoot, <<>>}, levels |-> {},
     regs |-> {regMock}, cfgs |-> {cfgMock}, bare |-> {}]
\* an entry with nopropagate and an output, then an entry without them
wAccum ==
    [users |-> {"app1"}, names |-> {sA}, levels |-> {Info},
     regs |-> {regMock}, cfgs |-> {cfgDam, cfgOpen}, bare |-> {}]

Workloads ==
    {wTest, wNoProp, wReconf, wUsers, wDefault, wErrors, wConsole, wPlugin,
     wFresh, wFilter, wAccum, wRoot}

\* the places an Outputter of the model writes to: the two msgSlices, the
\* standard streams, a file opened by number or by path, and the nil
\* io.Writer
Sinks == {"logs", "special", "stderr", "stdout", "fd", "file", "nil"}

NoOutputter == [kind |-> "nil"]

\* an output that was not wrapped
ThresholdOutputterUnwrapped(level, output) == output
\* ThresholdOutputter{level, output}
ThresholdOutputter(level, output) ==
    [kind |-> "threshold", Threshold |-> level, Outputter |-> output]

\* StringOutputter{Writer: IOWriter{writer}, Formatter: NewBasicFormatter(format)}
StringOutputter(writer, format) ==
    [kind |-> "string", sink |-> writer, format |-> format]

\* the template of DefaultSetup
DefaultFormat ==
    <<"[","$","l","e","v","e","l","]"," ","$","d","a","t","e","t","i","m","e",
      " ","-"," ","$","m","s","g">>

\* the Outputter DefaultSetup attaches to the root
StderrOutputter == StringOutputter("stderr", DefaultFormat)

Digits == {"0","1","2","3","4","5","6","7","8","9"}

\* [a-zA-Z]
Letters == {LowerChars[i] : i \in 1..Len(LowerChars)}
              \cup {UpperChars[i] : i \in 1..Len(UpperChars)}

\* the length of the longest prefix of s whose characters are all in set
RECURSIVE Run(_, _)
Run(s, set) ==
    IF s # <<>> /\ Head(s) \in set THEN 1 + Run(Tail(s), set) ELSE 0

\* the length of the longest prefix of s without a "$"
RECURSIVE TextRun(_)
TextRun(s) ==
    IF s # <<>> /\ Head(s) # "$" THEN 1 + TextRun(Tail(s)) ELSE 0

\* the length of templateRegex.FindString(remain), 0 when there is no
\* match: ^(\$[a-zA-Z]+|\$\$|[^\$]+), the first alternative that matches
TemplateMatch(remain) ==
    IF Head(remain) = "$"
    THEN IF Run(Tail(remain), Letters) > 0 THEN 1 + Run(Tail(remain), Letters)
         ELSE IF Len(remain) >= 2 /\ remain[2] = "$" THEN 2
         ELSE 0
    ELSE TextRun(remain)

\* NewBasicFormatter: <<the template parts, whether it panicked>>
RECURSIVE NewBasicFormatter(_)
NewBasicFormatter(remain) ==
    IF remain = <<>> THEN <<<<>>, FALSE>>
    ELSE LET n == TemplateMatch(remain)
         IN IF n = 0 THEN <<<<>>, TRUE>>
            ELSE LET match == SubSeq(remain, 1, n)
                     part  == IF match = <<"$", "$">>
                              THEN [Str |-> <<"$">>, Var |-> FALSE]
                              ELSE IF match[1] = "$"
                              THEN [Str |-> Tail(match), Var |-> TRUE]
                              ELSE [Str |-> match, Var |-> FALSE]
                     rest  == NewBasicFormatter(SubSeq(remain, n + 1, Len(remain)))
                 IN <<<<part>> \o rest[1], rest[2]>>

\* the value a panic of the library carries
Panic(msg) == <<"panic: ", msg>>

\* strconv.Atoi returns no error: an optional sign and at least one digit
IsInt(s) ==
    LET body == IF s # <<>> /\ Head(s) \in {"+", "-"} THEN Tail(s) ELSE s
    IN body # <<>> /\ \A i \in 1..Len(body) : body[i] \in Digits

\* consolePlugin: <<writer, error>>. In the default case the inner err
\* shadows the result, so the function returns (nil, nil) for a stream that
\* is no number.
ConsoleWriter(options) ==
    LET stream == Lookup(options, sStream, <<>>)
    IN IF stream = sStdout THEN <<"stdout", "nil">>
       ELSE IF stream = sStderr THEN <<"stderr", "nil">>
       ELSE IF stream = <<>> THEN <<"nil", "console stream not specified">>
       ELSE IF IsInt(stream) THEN <<"fd", "nil">>
       ELSE <<"nil", "nil">>

\* filePlugin: <<writer, error>>, for a path that os.OpenFile opens
FileWriter(options) ==
    IF Lookup(options, sFile, <<>>) = <<>>
    THEN <<"nil", "file option not specified">>
    ELSE <<"file", "nil">>

\* OutputPlugin.CreateOutputter: <<outputter, error>>. A msgSlice returns
\* itself; a WriterPlugin needs a format and asks its chooser for the writer.
CreateOutputter(plugin, options) ==
    IF plugin.kind \in {"msgSlice", "lookup"} THEN <<MsgSlice(plugin.sink), "nil">>
    ELSE LET format == Lookup(options, sFormat, <<>>)
         IN IF format = <<>>
            THEN <<NoOutputter, "console formatting string not specified">>
            ELSE IF NewBasicFormatter(Append(format, "\n"))[2]
            THEN <<NoOutputter,
                   Panic(<<"invalid template: ", Append(format, "\n")>>)>>
            ELSE LET chosen == IF plugin.kind = "console"
                               THEN ConsoleWriter(options)
                               ELSE FileWriter(options)
                 IN IF chosen[2] # "nil" THEN <<NoOutputter, chosen[2]>>
                    ELSE <<StringOutputter(chosen[1], Append(format, "\n")), "nil">>

----------------------------------------------------------------------------
(* State *)

VARIABLES
    Loggers,        \* the Logger objects: pointer -> struct
    nodes,          \* number of Logger objects allocated
    path,           \* pointer -> the parts under which the object was created
    lock,           \* the global sync.Mutex: Free or the holder
    configured,     \* the global flag
    outputPlugins,  \* the registry: plugin name -> plugin
    sinks,          \* what each sink has received, in order
    pc,             \* goroutine -> position
    frame,          \* goroutine -> locals
    ret,            \* goroutine -> result of its last finished call
    returned,       \* the <<name, pointer>> pairs returned by Get so far
    explicit,       \* the loggers a loggers entry or DefaultSetup has set
    ops,            \* calls made so far, per kind
    work            \* the callers

vars == <<Loggers, nodes, path, lock, configured, outputPlugins, sinks,
          pc, frame, ret, returned, explicit, ops, work>>

\* a Logger that is always made a child of the root
newLoggerUnderRoot(name, parent) ==
    [Name |-> name, Threshold |-> Undefined, NoPropagate |-> FALSE,
     parent |-> Root, children |-> <<>>, outputs |-> <<>>]

\* newLogger
newLogger(name, parent) ==
    [Name |-> name, Threshold |-> Undefined, NoPropagate |-> FALSE,
     parent |-> parent, children |-> <<>>, outputs |-> <<>>]

EmptyFrame ==
    [fullname |-> <<>>, parts |-> <<>>, walked |-> <<>>, logger |-> Nil,
     retpc |-> "idle",
     c |-> <<>>, todo |-> {}, outputters |-> <<>>, key |-> <<>>,
     entries |-> {}, name |-> <<>>, level |-> Undefined,
     stack |-> <<>>, n0 |-> 0, before |-> <<>>, flag |-> FALSE,
     applied |-> <<>>, filled |-> {},
     msg |-> <<>>, cur |-> Nil, visited |-> <<>>, fired |-> <<>>, chain |-> <<>>]

NoRet ==
    [op |-> "none", name |-> <<>>, node |-> Nil, level |-> Undefined,
     thr |-> Undefined, visited |-> <<>>, fired |-> <<>>, chain |-> <<>>,
     stable |-> TRUE, c |-> <<>>, err |-> "nil",
     before |-> <<>>, after |-> <<>>, filled |-> {}, runs |-> 0,
     history |-> <<>>]

Init ==
    /\ Loggers = (Root :> newLogger(sRoot, Nil))
    /\ nodes = 1
    /\ path = (Root :> <<>>)
    /\ lock = Free
    /\ configured = FALSE
    /\ outputPlugins = (sConsole :> consolePlugin) @@ (sFile :> filePlugin)
    /\ sinks = [s \in Sinks |-> <<>>]
    /\ pc = [t \in Threads |-> "idle"]
    /\ frame = [t \in Threads |-> EmptyFrame]
    /\ ret = [t \in Threads |-> NoRet]
    /\ returned = {}
    /\ explicit = {}
    /\ ops = [logs |-> 0, setups |-> 0]
    /\ work \in Workloads

\* sync.Mutex.Lock returns only when the mutex is unlocked
MutexAvailableNoWait == TRUE
MutexAvailable == lock = Free

----------------------------------------------------------------------------
(* Get *)

\* how many parts of a name have no node yet, walking down from l
RECURSIVE Missing(_, _)
Missing(l, parts) ==
    IF parts = <<>> THEN 0
    ELSE LET child == Lookup(Loggers[l].children, Head(parts), Nil)
         IN IF child = Nil THEN Len(parts) ELSE Missing(child, Tail(parts))

\* a Get for which the name root is the root
GetPartsRootIsRoot(fullname) ==
    IF fullname = sRoot THEN <<>> ELSE Split(fullname, ".")
\* parts := strings.Split(fullname, ".")
GetParts(fullname) == Split(fullname, ".")

\* lock.Lock(); parts := strings.Split(fullname, "."); logger := Root
GetLock(t, fullname, retpc) ==
    /\ MutexAvailable
    /\ nodes + Missing(Root, GetParts(fullname)) <= MaxNodes
    /\ lock' = t
    /\ frame' = [frame EXCEPT ![t].fullname = fullname,
                              ![t].parts = GetParts(fullname),
                              ![t].walked = <<>>,
                              ![t].logger = Root,
                              ![t].retpc = retpc]
    /\ pc' = [pc EXCEPT ![t] = "get_loop"]

\* a top-level call of Get
Get(t) ==
    /\ pc[t] = "idle"
    /\ t \in work.users
    /\ \E fullname \in work.names : GetLock(t, fullname, "idle")
    /\ UNCHANGED <<Loggers, nodes, path, configured, outputPlugins, sinks, ret,
                   returned, explicit, ops, work>>

\* child := logger.children[part]; if it exists: logger = child
GetLookup(t) ==
    /\ pc[t] = "get_loop"
    /\ frame[t].parts # <<>>
    /\ LET part  == Head(frame[t].parts)
           child == Lookup(Loggers[frame[t].logger].children, part, Nil)
       IN IF child = Nil
          THEN /\ pc' = [pc EXCEPT ![t] = "get_create"]
               /\ UNCHANGED frame
          ELSE /\ frame' = [frame EXCEPT ![t].logger = child,
                                         ![t].parts = Tail(@),
                                         ![t].walked = Append(@, part)]
               /\ UNCHANGED pc
    /\ UNCHANGED <<Loggers, nodes, path, lock, configured, outputPlugins, sinks,
                   ret, returned, explicit, ops, work>>

\* the Name given to the Logger that Get creates while resolving fullname:
\* newLogger(fullname, logger)
CreatedName(fullname, walked) == fullname

\* the Threshold given to a Logger created by Get under parent
CreatedThresholdNoInherit(parent) == Undefined
CreatedThreshold(parent) ==
    IF configured THEN Loggers[parent].Threshold ELSE Undefined

\* child = newLogger(fullname, logger); if configured {...};
\* logger.children[part] = child; logger = child
GetCreate(t) ==
    /\ pc[t] = "get_create"
    /\ nodes < MaxNodes
    /\ LET part   == Head(frame[t].parts)
           parent == frame[t].logger
           child  == nodes + 1
           walked == Append(frame[t].walked, part)
           obj    == [newLogger(CreatedName(frame[t].fullname, walked), parent)
                         EXCEPT !.Threshold = CreatedThreshold(parent)]
       IN /\ nodes' = child
          /\ Loggers' = [Loggers EXCEPT
                            ![parent].children = (part :> child) @@ @]
                        @@ (child :> obj)
          /\ path' = path @@ (child :> walked)
          /\ frame' = [frame EXCEPT ![t].logger = child,
                                    ![t].parts = Tail(@),
                                    ![t].walked = walked]
    /\ pc' = [pc EXCEPT ![t] = "get_loop"]
    /\ UNCHANGED <<lock, configured, outputPlugins, sinks, ret, returned, explicit,
                   ops, work>>

\* return logger (the deferred lock.Unlock() runs)
GetReturn(t) ==
    /\ pc[t] = "get_loop"
    /\ frame[t].parts = <<>>
    /\ lock' = Free
    /\ returned' = returned \cup {<<frame[t].fullname, frame[t].logger>>}
    /\ pc' = [pc EXCEPT ![t] = frame[t].retpc]
    /\ IF frame[t].retpc = "idle"
       THEN /\ ret' = [ret EXCEPT ![t] = [NoRet EXCEPT !.op = "get",
                                            !.name = frame[t].fullname,
                                            !.node = frame[t].logger]]
            /\ frame' = [frame EXCEPT ![t] = EmptyFrame]
       ELSE /\ UNCHANGED <<ret, frame>>
    /\ UNCHANGED <<Loggers, nodes, path, configured, outputPlugins, sinks, explicit,
                   ops, work>>

\* RegisterOutputPlugin(name, plugin)
RegisterOutputPlugin(t) ==
    /\ pc[t] = "idle"
    /\ t = "cfg"
    /\ MutexAvailable
    /\ \E r \in work.regs :
          outputPlugins' = (r[1] :> r[2]) @@ outputPlugins
    /\ UNCHANGED <<Loggers, nodes, path, lock, configured, sinks, pc, frame,
                   ret, returned, explicit, ops, work>>

----------------------------------------------------------------------------
(* config.apply *)

\* the error values
ErrTypeNotSpecified == "plugin name not specified"
ErrUnknownPlugin(name) == <<"unknown logging plugin: ", name>>
ErrInvalidThreshold(thresh) == <<"invalid threshold: ", thresh>>
ErrNoLoggers == "loggers section not specified"
ErrUnknownLevel(s) == <<"unknown logging level: ", s>>
ErrUnknownOutput(key) == <<"unknown logging output: ", key>>

\* every section but loggers
OutputSectionsAll(c) == {key \in DOMAIN c : key # sLoggers}
\* the sections apply builds an Outputter for
OutputSections(c) == {key \in DOMAIN c : key # sLoggers /\ key # <<>>}

\* the Threshold of every Logger
Thresholds == [n \in 1..nodes |-> Loggers[n].Threshold]

\* the end of an apply call: it returns err, having stopped at the loggers
\* entry name, which chose logger node
ApplyReturnAt(t, err, name, node) ==
    /\ pc' = [pc EXCEPT ![t] = "idle"]
    /\ ret' = [ret EXCEPT ![t] =
                  [NoRet EXCEPT !.op = "apply", !.c = frame[t].c, !.err = err,
                                !.name = name, !.node = node]]
    /\ frame' = [frame EXCEPT ![t] = EmptyFrame]

\* the same, outside the loop over the loggers entries
ApplyReturn(t, err) == ApplyReturnAt(t, err, <<>>, Nil)

\* a call of config.apply (through SetupReader): outputters := make(map)
Apply(t) ==
    /\ pc[t] = "idle"
    /\ t = "cfg"
    /\ ops.setups < MaxSetups
    /\ \E c \in work.cfgs :
          frame' = [frame EXCEPT ![t].c = c,
                                 ![t].outputters = <<>>,
                                 ![t].n0 = nodes,
                                 ![t].todo = OutputSections(c)]
    /\ pc' = [pc EXCEPT ![t] = "ap_sections"]
    /\ ops' = [ops EXCEPT !.setups = @ + 1]
    /\ UNCHANGED <<Loggers, nodes, path, lock, configured, outputPlugins, sinks,
                   ret, returned, explicit, work>>

\* newOutputterConfig, up to lock.Lock(): the "type" option
NocType(t) ==
    /\ pc[t] = "ap_sections"
    /\ \E key \in frame[t].todo :
          IF sType \notin DOMAIN frame[t].c[key]
          THEN /\ ApplyReturn(t, ErrTypeNotSpecified)
               /\ UNCHANGED lock
          ELSE /\ MutexAvailable
               /\ lock' = t
               /\ frame' = [frame EXCEPT ![t].key = key]
               /\ pc' = [pc EXCEPT ![t] = "noc_locked"]
               /\ UNCHANGED ret
    /\ UNCHANGED <<Loggers, nodes, path, configured, outputPlugins, sinks,
                   returned, explicit, ops, work>>

\* the result of newOutputterConfig once the lock is held
NewOutputter(section) ==
    LET name   == section[sType]
        plugin == Lookup(outputPlugins, name, NoPlugin)
    IN IF plugin = NoPlugin THEN <<NoOutputter, ErrUnknownPlugin(name)>>
       ELSE LET made == CreateOutputter(plugin, section)
            IN IF made[2] # "nil" THEN <<NoOutputter, made[2]>>
               ELSE IF sThreshold \in DOMAIN section
               THEN LET thresh == section[sThreshold]
                    IN IF ToUpper(thresh) \in DOMAIN ReverseLevelStrings
                       THEN <<ThresholdOutputter(ReverseLevelStrings[ToUpper(thresh)],
                                                 made[1]), "nil">>
                       ELSE <<NoOutputter, ErrInvalidThreshold(thresh)>>
               ELSE <<made[1], "nil">>

\* the plugin that newOutputterConfig finds for a section
PluginOf(section) == Lookup(outputPlugins, section[sType], NoPlugin)

\* newOutputterConfig under the lock, and outputters[key] = output. The
\* factory of a plugin that calls Get is entered with the lock held, and
\* goes on when that Get has returned.
NocCreate(t) ==
    /\ pc[t] \in {"noc_locked", "noc_made"}
    /\ LET key == frame[t].key
           res == NewOutputter(frame[t].c[key])
       IN IF pc[t] = "noc_locked" /\ PluginOf(frame[t].c[key]).kind = "lookup"
          THEN /\ frame' = [frame EXCEPT ![t].name =
                               Lookup(frame[t].c[key], sLogger, <<>>)]
               /\ pc' = [pc EXCEPT ![t] = "noc_get"]
               /\ UNCHANGED <<ret, lock>>
          ELSE /\ lock' = Free
               /\ IF res[2] # "nil"
                  THEN ApplyReturn(t, res[2])
                  ELSE /\ frame' = [frame EXCEPT
                                       ![t].outputters = (key :> res[1]) @@ @,
                                       ![t].todo = @ \ {key}]
                       /\ pc' = [pc EXCEPT ![t] = "ap_sections"]
                       /\ UNCHANGED ret
    /\ UNCHANGED <<Loggers, nodes, path, configured, outputPlugins, sinks,
                   returned, explicit, ops, work>>

\* loggerSection := c["loggers"]
ApplyLoggers(t) ==
    /\ pc[t] = "ap_sections"
    /\ frame[t].todo = {}
    /\ IF sLoggers \notin DOMAIN frame[t].c
       THEN ApplyReturn(t, ErrNoLoggers)
       ELSE /\ frame' = [frame EXCEPT ![t].entries = DOMAIN frame[t].c[sLoggers]]
            /\ pc' = [pc EXCEPT ![t] = "ap_entry"]
            /\ UNCHANGED ret
    /\ UNCHANGED <<Loggers, nodes, path, lock, configured, outputPlugins, sinks,
                   returned, explicit, ops, work>>

\* the parts of a loggers entry: strings.Split(config, ",")
EntryParts(config) == Split(config, ",")

\* one entry of the loggers section, up to the choice of the logger
ApplyEntry(t) ==
    /\ pc[t] = "ap_entry"
    /\ \E name \in frame[t].entries :
          LET parts == EntryParts(frame[t].c[sLoggers][name])
              upper == ToUpper(parts[1])
          IN IF upper \notin DOMAIN ReverseLevelStrings
             THEN /\ ApplyReturnAt(t, ErrUnknownLevel(parts[1]), name, Nil)
                  /\ UNCHANGED lock
             ELSE IF name = sRoot
             THEN /\ frame' = [frame EXCEPT ![t].name = name,
                                            ![t].level = ReverseLevelStrings[upper],
                                            ![t].logger = Root]
                  /\ pc' = [pc EXCEPT ![t] = "ap_set"]
                  /\ UNCHANGED <<ret, lock>>
             ELSE /\ frame' = [frame EXCEPT ![t].name = name,
                                            ![t].level = ReverseLevelStrings[upper]]
                  /\ pc' = [pc EXCEPT ![t] = "ap_get"]
                  /\ UNCHANGED <<ret, lock>>
    /\ UNCHANGED <<Loggers, nodes, path, configured, outputPlugins, sinks,
                   returned, explicit, ops, work>>

\* Get(name) called inside apply: logger = Get(name) of the loggers loop,
\* or the call a plugin factory makes
ApplyGet(t) ==
    /\ pc[t] \in {"ap_get", "noc_get"}
    /\ GetLock(t, frame[t].name, IF pc[t] = "ap_get" THEN "ap_set" ELSE "noc_made")
    /\ UNCHANGED <<Loggers, nodes, path, configured, outputPlugins, sinks, ret,
                   returned, explicit, ops, work>>

\* an option loop that attaches nothing unless every option is known
OptionsAllOrNothing(l, opts, outputters) ==
    LET bad  == {i \in 1..Len(opts) :
                    /\ opts[i] # sNoPropagate
                    /\ Lookup(outputters, opts[i], NoOutputter) = NoOutputter}
        outs == SelectSeq(opts, LAMBDA o : o # sNoPropagate)
    IN IF bad # {}
       THEN <<l, <<"unknown logging output: ",
                   opts[CHOOSE i \in bad : \A j \in bad : i <= j]>> >>
       ELSE <<[l EXCEPT !.NoPropagate = @ \/ \E i \in 1..Len(opts) :
                                                opts[i] = sNoPropagate,
                        !.outputs = @ \o [i \in 1..Len(outs) |->
                                             outputters[outs[i]]]], "nil">>

\* the option loop of one entry, run on logger l with the outputters built:
\* <<l after the loop, error>>
RECURSIVE Options(_, _, _)
Options(l, opts, outputters) ==
    IF opts = <<>> THEN <<l, "nil">>
    ELSE LET outputKey == Head(opts)
         IN IF outputKey = sNoPropagate
            THEN Options([l EXCEPT !.NoPropagate = TRUE], Tail(opts), outputters)
            ELSE LET outputter == Lookup(outputters, outputKey, NoOutputter)
                 IN IF outputter # NoOutputter
                    THEN Options([l EXCEPT !.outputs = Append(@, outputter)],
                                 Tail(opts), outputters)
                    ELSE <<l, ErrUnknownOutput(outputKey)>>

\* an assignment that starts the logger afresh
AssignedAfresh(l, level) ==
    [l EXCEPT !.Threshold = level, !.NoPropagate = FALSE, !.outputs = <<>>]
\* logger.Threshold = level
Assigned(l, level) == [l EXCEPT !.Threshold = level]

\* logger.Threshold = level, then the options
ApplySet(t) ==
    /\ pc[t] = "ap_set"
    /\ LET l     == frame[t].logger
           parts == EntryParts(frame[t].c[sLoggers][frame[t].name])
           res   == Options(Assigned(Loggers[l], frame[t].level),
                            Tail(parts), frame[t].outputters)
       IN /\ Loggers' = [Loggers EXCEPT ![l] = res[1]]
          /\ explicit' = explicit \cup {l}
          /\ IF res[2] # "nil"
             THEN ApplyReturnAt(t, res[2], frame[t].name, l)
             ELSE /\ frame' = [frame EXCEPT ![t].entries = @ \ {frame[t].name},
                                            ![t].applied = (frame[t].name :> l) @@ @]
                  /\ pc' = [pc EXCEPT ![t] = "ap_entry"]
                  /\ UNCHANGED ret
    /\ UNCHANGED <<nodes, path, lock, configured, outputPlugins, sinks,
                   returned, ops, work>>

\* the children of l, as pointers
ChildrenOf(l) == {Loggers[l].children[k] : k \in DOMAIN Loggers[l].children}

\* Root.Configure() is called
ApplyConfigure(t) ==
    /\ pc[t] = "ap_entry"
    /\ frame[t].entries = {}
    /\ frame' = [frame EXCEPT ![t].stack =
                    <<[l |-> Root, visited |-> {}, start |-> nodes]>>,
                              ![t].retpc = "ap_done"]
    /\ pc' = [pc EXCEPT ![t] = "configure"]
    /\ UNCHANGED <<Loggers, nodes, path, lock, configured, outputPlugins, sinks,
                   ret, returned, explicit, ops, work>>

\* the Threshold Configure leaves on a child of a logger with threshold parentThr
InheritedAlways(childThr, parentThr) == parentThr
Inherited(childThr, parentThr) ==
    IF childThr = Undefined THEN parentThr ELSE childThr

\* the Threshold of l that Configure, running on l, gives to a child
ParentThresholdAtCall(t, l) == frame[t].before[l].Threshold
ParentThreshold(t, l) == Loggers[l].Threshold

\* Logger.Configure, one child of the innermost call: the Undefined check,
\* then child.Configure()
ConfigureChild(t) ==
    /\ pc[t] = "configure"
    /\ frame[t].stack # <<>>
    /\ LET top == Head(frame[t].stack)
       IN \E child \in ChildrenOf(top.l) \ top.visited :
             /\ Loggers' = [Loggers EXCEPT ![child].Threshold =
                               Inherited(@, ParentThreshold(t, top.l))]
             /\ frame' = [frame EXCEPT ![t].stack =
                             <<[l |-> child, visited |-> {}, start |-> nodes],
                               [top EXCEPT !.visited = @ \cup {child}]>>
                             \o Tail(frame[t].stack),
                                       ![t].filled =
                                          IF Loggers'[child].Threshold
                                                # Loggers[child].Threshold
                                          THEN @ \cup {child} ELSE @]
    /\ UNCHANGED <<nodes, path, lock, configured, outputPlugins, sinks, pc, ret,
                   returned, explicit, ops, work>>

\* Logger.Configure, the range loop of the innermost call ends: every child
\* present when the loop began was produced
ConfigureReturn(t) ==
    /\ pc[t] = "configure"
    /\ frame[t].stack # <<>>
    /\ LET top == Head(frame[t].stack)
       IN /\ \A child \in ChildrenOf(top.l) \ top.visited : child > top.start
          /\ frame' = [frame EXCEPT ![t].stack = Tail(@)]
    /\ UNCHANGED <<Loggers, nodes, path, lock, configured, outputPlugins, sinks,
                   pc, ret, returned, explicit, ops, work>>

\* configured = true; return nil
ApplyDone(t) ==
    /\ pc[t] = "configure"
    /\ frame[t].stack = <<>>
    /\ frame[t].retpc = "ap_done"
    /\ configured' = TRUE
    /\ ApplyReturn(t, "nil")
    /\ UNCHANGED <<Loggers, nodes, path, lock, outputPlugins, sinks, returned,
                   explicit, ops, work>>

\* a call of Root.Configure() by the application
Configure(t) ==
    /\ pc[t] = "idle"
    /\ t = "cfg"
    /\ ops.setups < MaxSetups
    /\ ops' = [ops EXCEPT !.setups = @ + 1]
    /\ frame' = [frame EXCEPT ![t].stack =
                    <<[l |-> Root, visited |-> {}, start |-> nodes]>>,
                              ![t].before = Loggers,
                              ![t].retpc = "idle"]
    /\ pc' = [pc EXCEPT ![t] = "configure"]
    /\ UNCHANGED <<Loggers, nodes, path, lock, configured, outputPlugins, sinks,
                   ret, returned, explicit, work>>

\* that call returns
ConfigureDone(t) ==
    /\ pc[t] = "configure"
    /\ frame[t].stack = <<>>
    /\ frame[t].retpc = "idle"
    /\ pc' = [pc EXCEPT ![t] = "idle"]
    /\ ret' = [ret EXCEPT ![t] = [NoRet EXCEPT !.op = "Configure",
                                     !.before = frame[t].before,
                                     !.after = Thresholds,
                                     !.filled = frame[t].filled,
                                     !.runs = ret[t].runs + 1,
                                     !.history =
                                        Append(ret[t].history, frame[t].filled)]]
    /\ frame' = [frame EXCEPT ![t] = EmptyFrame]
    /\ UNCHANGED <<Loggers, nodes, path, lock, configured, outputPlugins, sinks,
                   returned, explicit, ops, work>>

----------------------------------------------------------------------------
(* Logging *)

\* Outputter.Output(msg): what the sinks hold afterwards
RECURSIVE Output(_, _, _)
Output(o, msg, s) ==
    IF o.kind = "threshold"
    THEN IF o.Threshold > msg.Level THEN s ELSE Output(o.Outputter, msg, s)
    ELSE IF o.sink = "nil" THEN s
    ELSE [s EXCEPT ![o.sink] = Append(@, msg)]

\* Outputter.Output(msg) panics: io.WriteString calls Write on the nil
\* io.Writer of an IOWriter
RECURSIVE Panics(_, _)
Panics(o, msg) ==
    IF o.kind = "threshold"
    THEN ~(o.Threshold > msg.Level) /\ Panics(o.Outputter, msg)
    ELSE o.kind = "string" /\ o.sink = "nil"

\* a dispatch that calls an Outputter once however often it is attached
CalledDistinct(outs, msg) ==
    SelectSeq([i \in 1..Len(outs) |->
                  IF \E j \in 1..(i - 1) : outs[j] = outs[i]
                  THEN NoOutputter ELSE outs[i]],
              LAMBDA o : o # NoOutputter)

\* the outputs of outs that are called for msg: all of them, or those up to
\* and including the first that panics
Called(outs, msg) ==
    IF \E i \in 1..Len(outs) : Panics(outs[i], msg)
    THEN SubSeq(outs, 1, CHOOSE i \in 1..Len(outs) :
                            /\ Panics(outs[i], msg)
                            /\ \A j \in 1..(i - 1) : ~Panics(outs[j], msg))
    ELSE outs

\* for _, output := range l.outputs { output.Output(msg) }
RECURSIVE OutputAll(_, _, _)
OutputAll(outs, msg, s) ==
    IF outs = <<>> THEN s
    ELSE OutputAll(Tail(outs), msg, Output(Head(outs), msg, s))

\* the loggers from l up to the root, with the fields dispatch depends on
RECURSIVE ChainOf(_)
ChainOf(l) ==
    IF l = Nil THEN <<>>
    ELSE <<[n |-> l, np |-> Loggers[l].NoPropagate, outs |-> Loggers[l].outputs,
            thr |-> Loggers[l].Threshold]>> \o ChainOf(Loggers[l].parent)

\* a chain without the thresholds
Shape(chain) ==
    [i \in 1..Len(chain) |-> [n |-> chain[i].n, np |-> chain[i].np,
                              outs |-> chain[i].outs]]

\* the goroutines inside a setup call
InSetup ==
    {u \in Threads :
        pc[u] # "idle" /\ (pc[u] # "dolog") /\
        (pc[u] \in {"get_loop", "get_create"} => frame[u].retpc # "idle")}

\* one setup call has been made, it has returned, and configured is set
OneSetupDone == ops.setups = 1 /\ InSetup = {} /\ configured

\* Logger.Log / Logger.Info / ...: the threshold check, and Logger.log
\* building the Message
LogCall(t) ==
    /\ pc[t] = "idle"
    /\ t \in work.users
    /\ ops.logs < MaxLogs
    /\ ops' = [ops EXCEPT !.logs = @ + 1]
    /\ \E l \in 1..nodes, level \in work.levels :
          IF ~Passes(Loggers[l].Threshold, level)
          THEN /\ ret' = [ret EXCEPT ![t] = [NoRet EXCEPT !.op = "log",
                             !.node = l, !.level = level,
                             !.thr = Loggers[l].Threshold,
                             !.chain = ChainOf(l)]]
               /\ UNCHANGED <<pc, frame>>
          ELSE /\ frame' = [frame EXCEPT
                     ![t].msg = [Level |-> level, Msg |-> ops.logs + 1, Logger |-> l],
                     ![t].level = Loggers[l].Threshold,
                     ![t].cur = l,
                     ![t].chain = ChainOf(l),
                     ![t].flag = OneSetupDone]
               /\ pc' = [pc EXCEPT ![t] = "dolog"]
               /\ UNCHANGED ret
    /\ UNCHANGED <<Loggers, nodes, path, lock, configured, outputPlugins, sinks,
                   returned, explicit, work>>

\* the condition under which doLog recurses into the parent
PropagatesAlways(l, msg) == Loggers[l].parent # Nil
PropagatesIfParentAccepts(l, msg) ==
    /\ ~Loggers[l].NoPropagate
    /\ Loggers[l].parent # Nil
    /\ ~(Loggers[Loggers[l].parent].Threshold > msg.Level)
Propagates(l, msg) == ~Loggers[l].NoPropagate /\ Loggers[l].parent # Nil

\* Logger.doLog on one logger: its outputs fire, then the parent or return;
\* a panic of an output unwinds the whole logging call
DoLog(t) ==
    /\ pc[t] = "dolog"
    /\ LET l       == frame[t].cur
           msg     == frame[t].msg
           called  == Called(Loggers[l].outputs, msg)
           panics  == called # <<>> /\ Panics(called[Len(called)], msg)
           visited == Append(frame[t].visited, l)
           fired   == frame[t].fired \o
                      [i \in 1..Len(called) |-> <<l, called[i]>>]
       IN /\ sinks' = OutputAll(called, msg, sinks)
          /\ IF ~panics /\ Propagates(l, msg)
             THEN /\ frame' = [frame EXCEPT ![t].cur = Loggers[l].parent,
                                            ![t].visited = visited,
                                            ![t].fired = fired]
                  /\ UNCHANGED <<pc, ret>>
             ELSE /\ ret' = [ret EXCEPT ![t] = [NoRet EXCEPT !.op = "log",
                                !.node = msg.Logger, !.level = msg.Level,
                                !.thr = frame[t].level,
                                !.visited = visited, !.fired = fired,
                                !.chain = frame[t].chain,
                                !.stable = (Shape(ChainOf(msg.Logger))
                                               = Shape(frame[t].chain)),
                                !.err = IF panics
                                        THEN Panic("nil pointer dereference")
                                        ELSE "nil"]]
                  /\ frame' = [frame EXCEPT ![t] = EmptyFrame]
                  /\ pc' = [pc EXCEPT ![t] = "idle"]
    /\ UNCHANGED <<Loggers, nodes, path, lock, configured, outputPlugins,
                   returned, explicit, ops, work>>

----------------------------------------------------------------------------
(* Setup without a document *)

\* the threshold DefaultSetup gives the root
DefaultThresholdDebug == Debug
DefaultThreshold == Trace

\* DefaultSetup
DefaultSetup(t) ==
    /\ pc[t] = "idle"
    /\ t = "cfg"
    /\ "DefaultSetup" \in work.bare
    /\ ops.setups < MaxSetups
    /\ ops' = [ops EXCEPT !.setups = @ + 1]
    /\ Loggers' = [Loggers EXCEPT ![Root].Threshold = DefaultThreshold,
                                  ![Root].outputs = Append(@, StderrOutputter)]
    /\ configured' = TRUE
    /\ explicit' = explicit \cup {Root}
    /\ ret' = [ret EXCEPT ![t] = [NoRet EXCEPT !.op = "DefaultSetup"]]
    /\ UNCHANGED <<nodes, path, lock, outputPlugins, sinks, pc, frame, returned,
                   work>>

\* CustomSetup
CustomSetup(t) ==
    /\ pc[t] = "idle"
    /\ t = "cfg"
    /\ "CustomSetup" \in work.bare
    /\ configured' = TRUE
    /\ ret' = [ret EXCEPT ![t] = [NoRet EXCEPT !.op = "CustomSetup"]]
    /\ UNCHANGED <<Loggers, nodes, path, lock, outputPlugins, sinks, pc, frame,
                   returned, explicit, ops, work>>

----------------------------------------------------------------------------
(* The program *)

\* the steps of goroutine t
ThreadNext(t) ==
    \/ Get(t)
    \/ GetLookup(t)
    \/ GetCreate(t)
    \/ GetReturn(t)
    \/ RegisterOutputPlugin(t)
    \/ Apply(t)
    \/ NocType(t)
    \/ NocCreate(t)
    \/ ApplyLoggers(t)
    \/ ApplyEntry(t)
    \/ ApplyGet(t)
    \/ ApplySet(t)
    \/ ApplyConfigure(t)
    \/ ConfigureChild(t)
    \/ ConfigureReturn(t)
    \/ ApplyDone(t)
    \/ LogCall(t)
    \/ DoLog(t)
    \/ DefaultSetup(t)
    \/ CustomSetup(t)

Next == \E t \in Threads : ThreadNext(t)

Spec == Init /\ [][Next]_vars

\* A goroutine inside a call of the library goes on: the scheduler runs
\* every runnable goroutine, and a goroutine waiting in lock.Lock() gets the
\* mutex once it is unlocked often enough (sync.Mutex hands the mutex to a
\* starving waiter).
InCall(t) == pc[t] # "idle"

FairSpec ==
    Spec /\ \A t \in Threads : SF_vars(InCall(t) /\ ThreadNext(t))

----------------------------------------------------------------------------
(* Root.Configure() on an arbitrary tree *)

\* most Logger objects of such a tree
MaxTree == 4

\* the thresholds of its loggers
TreeLevels == {Undefined, Info, Error}

\* the part of its name that logger n was created under
PartOf(n) == <<UpperChars[n - 1]>>

\* the parts from the root down to n, par giving the parents
RECURSIVE TreePath(_, _)
TreePath(par, n) ==
    IF n = Root THEN <<>> ELSE Append(TreePath(par, par[n]), PartOf(n))

\* the dotted name of n
RECURSIVE TreeName(_, _)
TreeName(par, n) ==
    IF n = Root THEN sRoot
    ELSE IF par[n] = Root THEN PartOf(n)
    ELSE TreeName(par, par[n]) \o <<".">> \o PartOf(n)

\* the Logger objects after Get was called for every node by its own name
\* and the thresholds thr were assigned
TreeLoggers(n, par, thr) ==
    [l \in 1..n |->
        LET kids == {m \in 2..n : par[m] = l}
        IN [Name |-> TreeName(par, l), Threshold |-> thr[l],
            NoPropagate |-> FALSE, parent |-> par[l],
            children |-> [k \in {PartOf(m) : m \in kids} |->
                             CHOOSE m \in kids : PartOf(m) = k],
            outputs |-> <<>>]]

\* the trees on the nodes 1..n, as parent functions
Trees(n) ==
    {par \in [1..n -> 0..(n - 1)] :
        par[Root] = Nil /\ \A m \in 2..n : par[m] \in 1..(m - 1)}

\* an application that only calls Root.Configure()
wConfigure ==
    [users |-> {}, names |-> {}, levels |-> {}, regs |-> {}, cfgs |-> {},
     bare |-> {}]

InitConfigure ==
    \E n \in 1..MaxTree : \E par \in Trees(n) : \E thr \in [1..n -> TreeLevels] :
        /\ Loggers = TreeLoggers(n, par, thr)
        /\ nodes = n
        /\ path = [l \in 1..n |-> TreePath(par, l)]
        /\ lock = Free
        /\ configured = FALSE
        /\ outputPlugins = (sConsole :> consolePlugin) @@ (sFile :> filePlugin)
        /\ sinks = [s \in Sinks |-> <<>>]
        /\ pc = [t \in Threads |-> "idle"]
        /\ frame = [t \in Threads |-> EmptyFrame]
        /\ ret = [t \in Threads |-> NoRet]
        /\ returned = {}
        /\ explicit = {}
        /\ ops = [logs |-> 0, setups |-> 0]
        /\ work = wConfigure

NextConfigure ==
    \E t \in Threads :
        \/ Configure(t)
        \/ ConfigureChild(t)
        \/ ConfigureReturn(t)
        \/ ConfigureDone(t)

SpecConfigure == InitConfigure /\ [][NextConfigure]_vars

----------------------------------------------------------------------------
(* Properties *)

\* the log calls that have returned to their caller
Logged == {t \in Threads : ret[t].op = "log" /\ ret[t].err = "nil"}
\* those of them that passed the threshold of their logger
Accepted == {t \in Logged : ret[t].visited # <<>>}

\* C1: Get is memoized. Two Get calls with the same name return the same
\* node, whatever goroutines made them and whatever ran in between, the node
\* returned is the one at the path of the name, and no two nodes are ever
\* created for one path.
GetMemoized ==
    /\ \A p, q \in returned : p[1] = q[1] => p[2] = q[2]
    /\ \A p \in returned : path[p[2]] = Split(p[1], ".")
    /\ \A m, n \in 1..nodes : path[m] = path[n] => m = n

\* two goroutines have both asked for "A.B" and got the one node made for it
GetMemoizedWitness ==
    /\ ret["app1"].op = "get" /\ ret["app1"].name = sAB
    /\ ret["app2"].op = "get" /\ ret["app2"].name = sAB
    /\ ret["app1"].node = ret["app2"].node
    /\ nodes = 3

\* C2: the threshold gate. A logging call at level X on N runs N's output
\* loop, over all of N's outputs, iff X >= N.Threshold at the time of the
\* call; when X < N.Threshold no Message is built and nothing fires.
ThresholdGate ==
    /\ \A t \in Logged :
          /\ (ret[t].level >= ret[t].thr)
                <=> (ret[t].visited # <<>> /\ ret[t].visited[1] = ret[t].node)
          /\ (ret[t].level >= ret[t].thr /\ ret[t].stable) =>
                SelectSeq(ret[t].fired, LAMBDA f : f[1] = ret[t].node)
                   = [i \in 1..Len(ret[t].chain[1].outs) |->
                         <<ret[t].node, ret[t].chain[1].outs[i]>>]
          /\ (ret[t].level < ret[t].thr) =>
                ret[t].fired = <<>> /\ ret[t].visited = <<>>
    /\ \A t \in Threads :
          pc[t] = "dolog" => frame[t].msg.Level >= frame[t].level

\* a message of a custom level has fired the outputs of its own logger
ThresholdGateWitness ==
    \E t \in Accepted :
        /\ ret[t].level = CustomLevel
        /\ ret[t].fired # <<>>
        /\ ret[t].fired[1][1] = ret[t].node

\* where dispatch stops on a chain: the first logger with NoPropagate, else
\* the root
StopIndex(chain) ==
    IF \E i \in 1..Len(chain) : chain[i].np
    THEN CHOOSE i \in 1..Len(chain) :
            chain[i].np /\ \A j \in 1..(i - 1) : ~chain[j].np
    ELSE Len(chain)

\* the output lists of the first k loggers of a chain, in order
RECURSIVE FiredUpTo(_, _)
FiredUpTo(chain, k) ==
    IF k = 0 THEN <<>>
    ELSE FiredUpTo(chain, k - 1) \o
         [i \in 1..Len(chain[k].outs) |-> <<chain[k].n, chain[k].outs[i]>>]

\* C3: upward propagation ignores the thresholds of the ancestors. An
\* accepted message is delivered to the outputs of its logger and of every
\* ancestor up to and including the first logger with NoPropagate, or up to
\* the root, whatever the thresholds of those ancestors are.
PropagationIgnoresThresholds ==
    \A t \in Accepted :
        ret[t].stable =>
            LET k == StopIndex(ret[t].chain)
            IN /\ ret[t].visited = [i \in 1..k |-> ret[t].chain[i].n]
               /\ ret[t].fired = FiredUpTo(ret[t].chain, k)

\* an ancestor whose threshold is above the level of the message has fired
\* its outputs
PropagationIgnoresThresholdsWitness ==
    \E t \in Accepted :
        /\ ret[t].stable
        /\ \E i \in 2..Len(ret[t].visited) :
              /\ ret[t].chain[i].thr > ret[t].level
              /\ ret[t].chain[i].outs # <<>>
              /\ \E j \in 1..Len(ret[t].fired) :
                    ret[t].fired[j][1] = ret[t].chain[i].n

\* C4: NoPropagate is a dam. A message is never delivered to the outputs of
\* a strict ancestor of the first logger, from its own logger upward, that has
\* NoPropagate set.
NoPropagateIsDam ==
    \A t \in Logged :
        ret[t].stable =>
            \A i, j \in 1..Len(ret[t].chain) :
                (i < j /\ ret[t].chain[i].np) =>
                    /\ \A v \in 1..Len(ret[t].visited) :
                          ret[t].visited[v] # ret[t].chain[j].n
                    /\ \A f \in 1..Len(ret[t].fired) :
                          ret[t].fired[f][1] # ret[t].chain[j].n

\* the README's example: a Trace message logged on A.B has reached "special"
\* only, while A holds the "console" output
NoPropagateIsDamWitness ==
    \E t \in Accepted :
        /\ work = wNoProp
        /\ path[ret[t].node] = <<sA, <<"B">>>>
        /\ ret[t].level = Trace
        /\ ret[t].chain[1].np
        /\ ret[t].chain[2].outs = <<MsgSlice("logs")>>
        /\ ret[t].fired = <<<<ret[t].node, MsgSlice("special")>>>>
        /\ sinks["logs"] = <<>>
        /\ Len(sinks["special"]) = 1

\* the nearest strict ancestor of n that is in explicit, Nil if there is none
RECURSIVE NearestExplicit(_, _)
NearestExplicit(L, n) ==
    IF L[n].parent = Nil THEN Nil
    ELSE IF L[n].parent \in explicit THEN L[n].parent
    ELSE NearestExplicit(L, L[n].parent)

\* C5: threshold inheritance. When an apply returns nil while no other call
\* is in progress, every logger that no loggers entry has ever set, and that
\* existed when the apply began, has the threshold of its nearest ancestor
\* that an entry has set.
InheritanceAfterEveryApply ==
    [][\A t \in Threads :
          (/\ pc[t] = "configure" /\ pc'[t] = "idle" /\ ret'[t].err = "nil"
           /\ \A u \in Threads \ {t} : pc[u] = "idle") =>
              \A n \in (1..frame[t].n0) \ explicit :
                  NearestExplicit(Loggers', n) # Nil =>
                      Loggers'[n].Threshold
                         = Loggers'[NearestExplicit(Loggers', n)].Threshold]_vars

\* C6: repeated setup does not duplicate delivery. With the document of
\* mockSetup applied any number of times, every accepted message is in the
\* mock output exactly once, the messages are there in logging order, and
\* nothing else is.
NoDuplicateDelivery ==
    work = wTest =>
        /\ \A i, j \in 1..Len(sinks["logs"]) :
              i < j => sinks["logs"][i].Msg < sinks["logs"][j].Msg
        /\ \A i \in 1..Len(sinks["logs"]) : sinks["logs"][i].Msg \in 1..ops.logs
        /\ \A t \in Accepted :
              (ret[t].stable /\ ret[t].chain[Len(ret[t].chain)].outs # <<>>) =>
                  Len(SelectSeq(ret[t].fired,
                                LAMBDA f : f[2] = MsgSlice("logs"))) = 1

\* C7: the document of mockSetup, whose loggers entry is `INFO, mock`, is
\* accepted once the mock plugin is registered: apply returns nil and the
\* mock output is attached to the root.
BlankAfterCommaAccepted ==
    \A t \in Threads :
        (ret[t].op = "apply" /\ ret[t].c = cfgTest
            /\ ret[t].err # ErrUnknownPlugin(sMock)) =>
                /\ ret[t].err = "nil"
                /\ \E i \in 1..Len(Loggers[Root].outputs) :
                      Loggers[Root].outputs[i] = MsgSlice("logs")

GetStep(t) ==
    /\ pc[t] \in {"get_loop", "get_create"}
    /\ <<pc[t], frame[t]>> # <<pc'[t], frame'[t]>>

\* C9: Get creates every missing node of the path, each with threshold
\* Undefined while configured is false and with the current threshold of its
\* parent otherwise, and leaves the existing nodes as they were.
GetCreatesMissingNodes ==
    [][\A t \in Threads :
          GetStep(t) =>
              /\ \A n \in (nodes + 1)..nodes' :
                    /\ Loggers'[n].parent = frame[t].logger
                    /\ Loggers'[n].Threshold =
                          IF configured THEN Loggers[frame[t].logger].Threshold
                          ELSE Undefined
                    /\ Loggers'[n].children = <<>>
              /\ \A m \in 1..nodes :
                    /\ Loggers'[m].Name = Loggers[m].Name
                    /\ Loggers'[m].Threshold = Loggers[m].Threshold
                    /\ Loggers'[m].NoPropagate = Loggers[m].NoPropagate
                    /\ Loggers'[m].parent = Loggers[m].parent
                    /\ Loggers'[m].outputs = Loggers[m].outputs
                    /\ \A k \in DOMAIN Loggers[m].children :
                          /\ k \in DOMAIN Loggers'[m].children
                          /\ Loggers'[m].children[k] = Loggers[m].children[k]
              /\ returned' # returned =>
                    LET parts == Split(frame[t].fullname, ".")
                    IN \A k \in 1..Len(parts) :
                          \E m \in 1..nodes :
                              /\ path[m] = SubSeq(parts, 1, k)
                              /\ Len(path[Loggers[m].parent]) = k - 1]_vars

\* after a setup, Get("A.B") has created A and A.B, and both carry the
\* threshold of the root
GetCreatesMissingNodesWitness ==
    \E t \in Threads :
        /\ ret[t].op = "get" /\ ret[t].name = sAB
        /\ configured
        /\ nodes = 3
        /\ Loggers[Root].Threshold = Trace
        /\ Loggers[2].Threshold = Trace
        /\ Loggers[3].Threshold = Trace
        /\ explicit = {Root}

\* C10: the Name of the node Get returns for a name is that name.
NameIsOwnPath ==
    \A p \in returned : Loggers[p[2]].Name = p[1]

\* C11: Configure is idempotent. Whatever the tree and the thresholds, once
\* Root.Configure() has run, a further run changes no threshold, neither
\* while it runs nor when it has returned.
ConfigureIdempotent ==
    \A t \in Threads :
        ret[t].op = "Configure" =>
            /\ Thresholds = ret[t].after
            /\ \A i \in 2..Len(ret[t].history) : ret[t].history[i] = {}

\* the first run gave a threshold to a child and to a grandchild of the
\* root, and the second run has returned
ConfigureIdempotentWitness ==
    \E t \in Threads :
        /\ ret[t].op = "Configure"
        /\ ret[t].runs = 2
        /\ \E m, n \in ret[t].history[1] :
              /\ Loggers[m].parent = Root
              /\ Loggers[n].parent = m
              /\ Loggers[n].Threshold = Loggers[Root].Threshold

\* the apply call of goroutine t has returned an error
FailedApply(t) ==
    pc[t] = "idle" /\ ret[t].op = "apply" /\ ret[t].err # "nil"

\* goroutine t is inside apply and has not reached Root.Configure()
InApply(t) ==
    \/ pc[t] \in {"ap_sections", "noc_locked", "noc_get", "noc_made",
                  "ap_entry", "ap_get", "ap_set"}
    \/ pc[t] \in {"get_loop", "get_create"}
          /\ frame[t].retpc \in {"ap_set", "noc_made"}

\* a step of apply before Root.Configure()
ApplyStep(t) == InApply(t) /\ <<pc[t], frame[t]>> # <<pc'[t], frame'[t]>>

\* the Outputters that the options opts of a loggers entry attach
Attached(opts, outputters) ==
    LET outs == SelectSeq(opts, LAMBDA o : o # sNoPropagate)
    IN [i \in 1..Len(outs) |-> outputters[outs[i]]]

\* outs are the last outputs of logger l
EndsWith(l, outs) ==
    /\ Len(l.outputs) >= Len(outs)
    /\ SubSeq(l.outputs, Len(l.outputs) - Len(outs) + 1, Len(l.outputs)) = outs

\* the options of a loggers entry that precede the option key
OptionsBefore(parts, key) ==
    LET j == CHOOSE i \in 2..Len(parts) :
                 parts[i] = key /\ \A k \in 2..(i - 1) : parts[k] # key
    IN SubSeq(parts, 2, j - 1)

\* C12: a failed apply stops before the inheritance pass. No step of apply
\* before Root.Configure() sets configured or changes the threshold of a
\* logger other than the one its loggers entry names, so no Undefined
\* threshold is filled in; the step that returns the error is such a step
\* (only a call that ran Root.Configure() returns nil), and when it is taken
\* every entry applied before it is in place (level, NoPropagate, outputs)
\* and so is the part of the failing entry that precedes the unknown output:
\* its level and its earlier options.
FailedApplyKeepsWhatWasApplied ==
    [][\A t \in Threads :
          /\ ApplyStep(t) =>
                /\ configured' = configured
                /\ \A n \in 1..nodes :
                      Loggers'[n].Threshold # Loggers[n].Threshold =>
                          pc[t] = "ap_set" /\ n = frame[t].logger
          /\ (pc[t] # "idle" /\ pc'[t] = "idle" /\ ret'[t].op = "apply") =>
                (ret'[t].err = "nil") = (pc[t] = "configure")
          /\ (ApplyStep(t) /\ pc'[t] = "idle") =>
                /\ \A name \in DOMAIN frame[t].applied :
                      LET l     == Loggers'[frame[t].applied[name]]
                          parts == Split(frame[t].c[sLoggers][name], ",")
                      IN /\ l.Threshold = ReverseLevelStrings[ToUpper(parts[1])]
                         /\ (\E i \in 2..Len(parts) : parts[i] = sNoPropagate)
                               => l.NoPropagate
                         /\ EndsWith(l, Attached(Tail(parts), frame[t].outputters))
                /\ pc[t] = "ap_set" =>
                      LET n     == frame[t].logger
                          parts == Split(frame[t].c[sLoggers][frame[t].name], ",")
                          done  == OptionsBefore(parts, ret'[t].err[2])
                      IN /\ ret'[t].err[1] = "unknown logging output: "
                         /\ Loggers'[n].Threshold
                              = ReverseLevelStrings[ToUpper(parts[1])]
                         /\ Loggers'[n].outputs
                              = Loggers[n].outputs
                                   \o Attached(done, frame[t].outputters)
                         /\ Loggers'[n].NoPropagate
                              = (Loggers[n].NoPropagate
                                   \/ \E i \in 1..Len(done) : done[i] = sNoPropagate)
                         /\ \A m \in (1..nodes) \ {n} : Loggers'[m] = Loggers[m]
                /\ pc[t] # "ap_set" => Loggers' = Loggers]_vars

\* the first apply stopped at the unknown output of `root = WARN,mock,nowhere`:
\* the root has the level and the mock output, a logger that Get made is
\* still Undefined, and configured is still false
FailedApplyKeepsWhatWasAppliedWitness ==
    \E t \in Threads :
        /\ FailedApply(t)
        /\ ops.setups = 1
        /\ ret[t].c = cfgBadOutput
        /\ ret[t].err = ErrUnknownOutput(sNowhere)
        /\ ret[t].node = Root
        /\ Loggers[Root].Threshold = Warn
        /\ Loggers[Root].outputs = <<MsgSlice("logs")>>
        /\ \E n \in 2..nodes : Loggers[n].Threshold = Undefined
        /\ ~configured

\* two strings are equal up to the case of their letters
FoldEq(a, b) ==
    /\ Len(a) = Len(b)
    /\ \A i \in 1..Len(a) :
          \/ a[i] = b[i]
          \/ \E k \in 1..Len(LowerChars) :
                {a[i], b[i]} = {LowerChars[k], UpperChars[k]}

\* s is Trace, Debug, Info, Notice, Warn, Error or Fatal, in any case
IsLevelName(s) == \E l \in DefaultLevels : FoldEq(s, LevelStrings[l])

\* the level part of the loggers entry name of document c
LevelPart(c, name) == Split(c[sLoggers][name], ",")[1]

\* C13: a loggers entry whose level is no level name, in any case, makes
\* apply return the unknown-level error, and the step that rejects the entry
\* changes no logger and creates none; an entry is taken further (to Get and
\* to the assignments) only if its level is a level name.
UnknownLevelBeforeMutation ==
    [][\A t \in Threads :
          /\ (pc[t] = "ap_entry" /\ pc'[t] = "idle") =>
                LET name == ret'[t].name
                IN /\ name \in frame[t].entries
                   /\ ~IsLevelName(LevelPart(frame[t].c, name))
                   /\ ret'[t].err = ErrUnknownLevel(LevelPart(frame[t].c, name))
                   /\ ret'[t].node = Nil
                   /\ Loggers' = Loggers
                   /\ nodes' = nodes
          /\ (pc[t] = "ap_entry" /\ pc'[t] \in {"ap_get", "ap_set"}) =>
                IsLevelName(LevelPart(frame[t].c, frame'[t].name))]_vars

\* apply has rejected `A = verbose` after it applied `root = info`: the root
\* has Info and there is still no logger A
UnknownLevelBeforeMutationWitness ==
    \E t \in Threads :
        /\ FailedApply(t)
        /\ ret[t].c = cfgBadLevel
        /\ ret[t].err = ErrUnknownLevel(sVerbose)
        /\ ret[t].name = sA
        /\ ops.setups = 1
        /\ Loggers[Root].Threshold = Info
        /\ sA \notin DOMAIN Loggers[Root].children
        /\ nodes = 1

\* the errors of the writer plugins
CreationErrors ==
    {"console formatting string not specified", "console stream not specified",
     "file option not specified"}

\* the failure class of a result of apply
ErrorClass(err) ==
    IF err = "nil" THEN "nil"
    ELSE IF err = ErrTypeNotSpecified THEN "type"
    ELSE IF err = ErrNoLoggers THEN "loggers"
    ELSE IF err \in CreationErrors THEN "create"
    ELSE IF err[1] = "unknown logging plugin: " THEN "plugin"
    ELSE IF err[1] = "invalid threshold: " THEN "threshold"
    ELSE IF err[1] = "unknown logging level: " THEN "level"
    ELSE IF err[1] = "unknown logging output: " THEN "output"
    ELSE "panic"

\* the option tokens of the loggers entries of c that are neither
\* nopropagate nor one of the sections secs
UndeclaredOutputs(c, secs) ==
    IF sLoggers \notin DOMAIN c THEN {}
    ELSE {key \in UNION {{Split(c[sLoggers][name], ",")[i] :
                             i \in 2..Len(Split(c[sLoggers][name], ","))} :
                         name \in DOMAIN c[sLoggers]} :
             key # sNoPropagate /\ key \notin secs}

\* the failure classes document c has, its output sections being secs and
\* the registry plugins
ErrorCauses(c, secs, plugins) ==
    LET typed == {k \in secs : sType \in DOMAIN c[k]}
        known == {k \in typed : c[k][sType] \in DOMAIN plugins}
        made  == [k \in known |-> CreateOutputter(plugins[c[k][sType]], c[k])[2]]
    IN (IF secs # typed THEN {"type"} ELSE {})
       \cup (IF typed # known THEN {"plugin"} ELSE {})
       \cup (IF \E k \in known : made[k] \in CreationErrors
             THEN {"create"} ELSE {})
       \cup (IF \E k \in known : ErrorClass(made[k]) = "panic"
             THEN {"panic"} ELSE {})
       \cup (IF \E k \in secs : /\ sThreshold \in DOMAIN c[k]
                                 /\ ~IsLevelName(c[k][sThreshold])
             THEN {"threshold"} ELSE {})
       \cup (IF sLoggers \notin DOMAIN c THEN {"loggers"} ELSE {})
       \cup (IF /\ sLoggers \in DOMAIN c
                /\ \E name \in DOMAIN c[sLoggers] : ~IsLevelName(LevelPart(c, name))
             THEN {"level"} ELSE {})
       \cup (IF UndeclaredOutputs(c, secs) # {} THEN {"output"} ELSE {})

\* the result r of an apply call is the error of a failure class its
\* document has, the registry being plugins, and nil exactly when it has
\* none
TaxonomyHolds(r, secs, plugins) ==
    LET c      == r.c
        err    == r.err
        class  == ErrorClass(err)
        causes == ErrorCauses(c, secs, plugins)
    IN /\ (class = "nil") <=> (causes = {})
       /\ class # "nil" => class \in causes
       /\ class = "plugin" =>
             \E k \in secs : /\ sType \in DOMAIN c[k]
                             /\ c[k][sType] \notin DOMAIN plugins
                             /\ err = ErrUnknownPlugin(c[k][sType])
       /\ class = "threshold" =>
             \E k \in secs : /\ sThreshold \in DOMAIN c[k]
                             /\ err = ErrInvalidThreshold(c[k][sThreshold])
       /\ class = "output" =>
             \E key \in UndeclaredOutputs(c, secs) : err = ErrUnknownOutput(key)

\* goroutine t returns from apply in this step
ApplyReturns(t) == pc[t] # "idle" /\ pc'[t] = "idle" /\ ret'[t].op = "apply"

\* C14 as stated: every section other than loggers counts as an output
\* section. A missing type yields ErrTypeNotSpecified, an unregistered type
\* ErrUnknownPlugin(name), an unrecognized threshold the invalid-threshold
\* error, a missing loggers section "loggers section not specified", an
\* undeclared option token the unknown-output error, and apply returns nil
\* only if none of these occurred.
ErrorTaxonomyEverySection ==
    [][\A t \in Threads :
          ApplyReturns(t) =>
              TaxonomyHolds(ret'[t], DOMAIN ret'[t].c \ {sLoggers},
                            outputPlugins)]_vars

\* C14, amended: the same, the output sections being every section other
\* than loggers and the unnamed section "" (the keys before the first
\* section header), which apply skips.
ErrorTaxonomyNamedSections ==
    [][\A t \in Threads :
          ApplyReturns(t) =>
              TaxonomyHolds(ret'[t], DOMAIN ret'[t].c \ {sLoggers, <<>>},
                            outputPlugins)]_vars

\* a document with keys before its first section header, none of them
\* type, was applied: apply returned nil and the root has the level
ErrorTaxonomyNamedSectionsWitness ==
    \E t \in Threads :
        /\ ret[t].op = "apply"
        /\ ret[t].c = cfgGlobal
        /\ ret[t].err = "nil"
        /\ sType \notin DOMAIN cfgGlobal[<<>>]
        /\ Loggers[Root].Threshold = Debug

\* an access to field f of logger n, w telling whether it writes
Acc(n, f, w) == [n |-> n, f |-> f, w |-> w]

\* the fields of the hierarchy that the next step of goroutine t reads and
\* writes
Accesses(t) ==
    IF pc[t] = "get_loop" /\ frame[t].parts # <<>>
    THEN {Acc(frame[t].logger, "children", FALSE)}
    ELSE IF pc[t] = "get_create"
    THEN {Acc(frame[t].logger, "children", TRUE)}
            \cup {Acc(frame[t].logger, "Threshold", FALSE) : b \in {configured} \ {FALSE}}
    ELSE IF pc[t] = "ap_set"
    THEN LET opts == Tail(EntryParts(frame[t].c[sLoggers][frame[t].name]))
         IN {Acc(frame[t].logger, "Threshold", TRUE)}
               \cup {Acc(frame[t].logger, "NoPropagate", TRUE) :
                        i \in {j \in 1..Len(opts) : opts[j] = sNoPropagate}}
               \cup {Acc(frame[t].logger, "outputs", TRUE) :
                        i \in {j \in 1..Len(opts) :
                                  opts[j] \in DOMAIN frame[t].outputters}}
    ELSE IF pc[t] = "configure" /\ frame[t].stack # <<>>
    THEN LET top == Head(frame[t].stack)
         IN {Acc(top.l, "children", FALSE), Acc(top.l, "Threshold", FALSE)}
               \cup UNION {{Acc(child, "Threshold", FALSE),
                            Acc(child, "Threshold",
                                Loggers[child].Threshold = Undefined)} :
                              child \in ChildrenOf(top.l) \ top.visited}
    ELSE IF pc[t] = "dolog"
    THEN {Acc(frame[t].cur, "outputs", FALSE),
          Acc(frame[t].cur, "NoPropagate", FALSE)}
    ELSE {}

\* C15: the global lock protects the hierarchy. No two goroutines are ever
\* about to access the same field of the same logger (its child map, its
\* Threshold, its NoPropagate flag, its output list) with at least one of
\* them writing it.
NoConcurrentFieldAccess ==
    \A t, u \in Threads :
        t # u =>
            \A a \in Accesses(t), b \in Accesses(u) :
                (a.n = b.n /\ a.f = b.f) => (~a.w /\ ~b.w)

\* C16: no operation suspends indefinitely. Under fair scheduling every
\* call of Get and of apply that has begun returns, also when a plugin
\* factory run by apply calls Get.
EveryCallReturns ==
    \A t \in Threads : InCall(t) ~> (pc[t] = "idle")

\* C17: Get concurrent with configuration. Once the first apply, whose
\* loggers section sets the threshold of the root, has returned nil and the
\* Get calls that ran beside it have returned too, every logger, those
\* created by these Get calls included, has a threshold that is not
\* Undefined and is that of its nearest ancestor set by a loggers entry.
GetDuringFirstApply ==
    \A t \in Threads :
        (/\ pc[t] = "idle" /\ ret[t].op = "apply" /\ ret[t].err = "nil"
         /\ \A u \in Threads : pc[u] = "idle"
         /\ ops.setups = 1
         /\ sRoot \in DOMAIN ret[t].c[sLoggers]) =>
            \A n \in 1..nodes :
                /\ Loggers[n].Threshold # Undefined
                /\ n \notin explicit =>
                      Loggers[n].Threshold
                         = Loggers[NearestExplicit(Loggers, n)].Threshold

\* C18: runtime logging never fails observably. A logging call made when
\* one setup call (an apply with the built-in plugins, or DefaultSetup) has
\* been made and has returned without an error returns normally to its
\* caller: no panic escapes from dispatch.
LoggingReturnsNormally ==
    [][\A t \in Threads :
          (pc[t] = "dolog" /\ pc'[t] = "idle" /\ frame[t].flag) =>
              ret'[t].err = "nil"]_vars

\* C19: every configuration error is returned as an error value. No apply
\* call ends in a panic, whatever the document, a malformed format template
\* included.
ApplyNeverPanics ==
    \A t \in Threads :
        ret[t].op = "apply" => ErrorClass(ret[t].err) # "panic"

\* s is a decimal integer
IsDecimal(s) == s # <<>> /\ \A i \in 1..Len(s) : s[i] \in Digits

\* C20: the console plugin rejects an invalid stream selector. Whenever
\* newOutputterConfig calls the console plugin with a non-empty, well-formed
\* format, the plugin returns an error and no Outputter if stream is absent,
\* empty, or neither stdout, stderr nor a decimal integer, and it returns an
\* Outputter with a non-nil writer exactly when stream is one of these.
ConsoleRejectsInvalidStream ==
    \A t \in Threads :
        (/\ pc[t] = "noc_locked"
         /\ PluginOf(frame[t].c[frame[t].key]) = consolePlugin
         /\ Lookup(frame[t].c[frame[t].key], sFormat, <<>>) # <<>>
         /\ ~NewBasicFormatter(
                Append(frame[t].c[frame[t].key][sFormat], "\n"))[2]) =>
            LET options == frame[t].c[frame[t].key]
                stream  == Lookup(options, sStream, <<>>)
                valid   == stream \in {sStdout, sStderr} \/ IsDecimal(stream)
                res     == CreateOutputter(consolePlugin, options)
            IN /\ ~valid => (res[2] # "nil" /\ res[1] = NoOutputter)
               /\ valid <=> (/\ res[2] = "nil"
                             /\ res[1] # NoOutputter
                             /\ res[1].sink # "nil")

\* goroutine t makes a logging call on logger l at the given level
LogCallOn(t, l, level) ==
    /\ pc[t] = "idle"
    /\ ops'.logs = ops.logs + 1
    /\ \/ /\ pc'[t] = "dolog"
          /\ frame'[t].msg.Logger = l
          /\ frame'[t].msg.Level = level
       \/ /\ pc' = pc
          /\ \A u \in Threads \ {t} : ret'[u] = ret[u]
          /\ ret'[t].op = "log"
          /\ ret'[t].node = l
          /\ ret'[t].level = level
          /\ ret'[t].visited = <<>>

\* one setup call has been made, it was DefaultSetup, and it has returned
DefaultSetupOnly ==
    ops.setups = 1 /\ InSetup = {} /\ ret["cfg"].op = "DefaultSetup"

\* the sink holds what it held and then one or more copies of msg
Delivered(sink, msg) ==
    \E k \in 1..(MaxSetups + 1) :
        sinks'[sink] = sinks[sink] \o [i \in 1..k |-> msg]

\* a logging call on the root made after the one DefaultSetup is let through
\* exactly if its level is at or above lowest, and a call let through is
\* written to the console output
RootGate(lowest) ==
    \A t \in Threads :
        /\ \A level \in work.levels :
              (DefaultSetupOnly /\ LogCallOn(t, Root, level)) =>
                  /\ (pc'[t] = "dolog") = Passes(lowest, level)
                  /\ sinks' = sinks
        /\ (/\ pc[t] = "dolog"
            /\ pc'[t] = "idle"
            /\ frame[t].flag
            /\ frame[t].msg.Logger = Root
            /\ ret["cfg"].op = "DefaultSetup") =>
               Delivered("stderr", frame[t].msg)

\* C21 as stated: after DefaultSetup on a fresh hierarchy, a message logged
\* on the root is delivered to the console output if and only if its level
\* is at or above Debug, so that a Trace message is dropped.
DefaultRootThresholdIsDebug == [][RootGate(Debug)]_vars

\* C21 as amended: after DefaultSetup on a fresh hierarchy, a message logged
\* on the root is delivered to the console output if and only if its level
\* is at or above Trace, the lowest default level, so that a Trace message
\* is delivered and only a custom level below Trace is dropped.
DefaultRootThresholdIsTrace == [][RootGate(Trace)]_vars

\* after the one DefaultSetup a Trace message logged on the root is on the
\* console
DefaultRootThresholdIsTraceWitness ==
    /\ ret["cfg"].op = "DefaultSetup"
    /\ ops.setups = 1
    /\ Loggers[Root].Threshold = Trace
    /\ \E t \in Threads :
          /\ ret[t].op = "log"
          /\ ret[t].node = Root
          /\ ret[t].level = Trace
          /\ ret[t].thr = Trace
          /\ ret[t].fired = <<<<Root, StderrOutputter>>>>
          /\ sinks["stderr"] = <<[Level |-> Trace, Msg |-> 1, Logger |-> Root]>>

\* C22: after DefaultSetup all messages are logged to the console output of
\* the root. A logging call of a default level made after the one
\* DefaultSetup, on any logger, whether Get made it before DefaultSetup or
\* after, is let through, and when it returns the console Outputter of the
\* root has fired for it.
DefaultSetupLogsEverything ==
    [][\A t \in Threads :
          /\ \A l \in 1..nodes, level \in work.levels \cap DefaultLevels :
                (DefaultSetupOnly /\ LogCallOn(t, l, level)) =>
                    pc'[t] = "dolog"
          /\ (/\ pc[t] = "dolog"
              /\ pc'[t] = "idle"
              /\ frame[t].flag
              /\ frame[t].msg.Level \in DefaultLevels
              /\ ret["cfg"].op = "DefaultSetup") =>
                 \E i \in 1..Len(ret'[t].fired) :
                     ret'[t].fired[i] = <<Root, StderrOutputter>>]_vars

\* the level a level name stands for, in any letter case
LevelNamed(str) == CHOOSE l \in DefaultLevels : FoldEq(str, LevelStrings[l])

\* the logger a loggers entry addresses
EntryLogger(name) ==
    IF name = sRoot THEN Root
    ELSE CHOOSE n \in 1..nodes : path[n] = Split(name, ".")

\* the output sections document c attaches to logger l, in entry order
SectionsOf(c, l) ==
    LET names == {name \in DOMAIN c[sLoggers] :
                     /\ name = sRoot \/ \E n \in 1..nodes : path[n] = Split(name, ".")
                     /\ EntryLogger(name) = l}
    IN IF names = {} THEN <<>>
       ELSE LET name == CHOOSE name \in names : TRUE
                keys == SelectSeq(Tail(Split(c[sLoggers][name], ",")),
                                  LAMBDA o : o # sNoPropagate)
            IN [i \in 1..Len(keys) |-> c[keys[i]]]

\* an output section lets a message of the level through
SectionForwards(section, level) ==
    sThreshold \in DOMAIN section =>
        level >= LevelNamed(section[sThreshold])

\* the one setup call was an apply of a document whose outputs are
\* msgSlices, and it returned nil
OneApplyDone ==
    /\ ops.setups = 1
    /\ ret["cfg"].op = "apply"
    /\ ret["cfg"].err = "nil"
    /\ \A key \in OutputSections(ret["cfg"].c) :
          PluginOf(ret["cfg"].c[key]).kind = "msgSlice"

\* C23: per-output threshold. When a message reaches a logger that the
\* applied document gave outputs, every output section with `threshold = L`
\* (in any letter case) hands the message to the Outputter its plugin built
\* exactly if the level of the message is at least L, whatever the
\* thresholds of the loggers, and every output section without a threshold
\* hands on every message: each sink receives one copy of the message per
\* attached section that writes to it and lets the message through.
PerOutputThreshold ==
    [][\A t \in Threads :
          (/\ pc[t] = "dolog"
           /\ <<pc[t], frame[t]>> # <<pc'[t], frame'[t]>>
           /\ frame[t].flag
           /\ OneApplyDone) =>
              LET msg  == frame[t].msg
                  secs == SectionsOf(ret["cfg"].c, frame[t].cur)
              IN \A sink \in Sinks :
                    LET k == Cardinality(
                               {i \in 1..Len(secs) :
                                   /\ PluginOf(secs[i]).sink = sink
                                   /\ SectionForwards(secs[i], msg.Level)})
                    IN sinks'[sink] = sinks[sink] \o [i \in 1..k |-> msg]]_vars

\* an Info message on the root, whose threshold is Info, fired both outputs
\* of the root: the one with `threshold = error` dropped it and the one
\* without a threshold wrote it
PerOutputThresholdWitness ==
    \E t \in Threads :
        /\ ret["cfg"].c = cfgFilter
        /\ OneApplyDone
        /\ ret[t].op = "log"
        /\ ret[t].node = Root
        /\ ret[t].level = Info
        /\ ret[t].thr = Info
        /\ Len(ret[t].fired) = 2
        /\ ret[t].fired[1][2] = ThresholdOutputter(Error, MsgSlice("logs"))
        /\ sinks["logs"] = <<>>
        /\ Len(sinks["special"]) = 1

\* sequence a is the beginning of sequence b
IsPrefix(a, b) == Len(a) <= Len(b) /\ SubSeq(b, 1, Len(a)) = a

ConfigureStep(t) ==
    pc[t] = "configure" /\ frame'[t].stack # frame[t].stack

\* goroutine t takes the step of apply that assigns the fields of a logger
SetStep(t) == pc[t] = "ap_set" /\ pc'[t] # "ap_set"

\* goroutine t calls DefaultSetup
DefaultSetupStep(t) ==
    /\ pc[t] = "idle"
    /\ pc'[t] = "idle"
    /\ ops'.setups = ops.setups + 1
    /\ ret'[t].op = "DefaultSetup"

\* C25: thresholds are fixed once defined. The threshold of an existing node
\* changes only in three ways: Configure gives a node whose threshold is
\* Undefined the threshold of its parent, apply assigns the level of the
\* loggers entry that names the node, and DefaultSetup assigns Trace to the
\* root. So Get, AddOutput and logging calls change no threshold, and a
\* threshold that is not Undefined is never derived again from an ancestor.
ThresholdsFixedOnceDefined ==
    [][\A n \in 1..nodes :
          Loggers'[n].Threshold # Loggers[n].Threshold =>
              \E t \in Threads :
                  \/ /\ ConfigureStep(t)
                     /\ Loggers[n].Threshold = Undefined
                     /\ Loggers'[n].Threshold
                           = Loggers[Loggers[n].parent].Threshold
                  \/ /\ SetStep(t)
                     /\ frame[t].name \in DOMAIN frame[t].c[sLoggers]
                     /\ n = (IF frame[t].name = sRoot THEN Root
                             ELSE CHOOSE m \in 1..nodes :
                                      path[m] = Split(frame[t].name, "."))
                     /\ Loggers'[n].Threshold
                           = LevelNamed(LevelPart(frame[t].c, frame[t].name))
                  \/ /\ DefaultSetupStep(t)
                     /\ n = Root
                     /\ Loggers'[n].Threshold = Trace]_vars

\* after a second apply raised the root to Error, a child of the root that
\* no loggers entry names still has the Info it inherited
ThresholdsFixedOnceDefinedWitness ==
    /\ pc["cfg"] = "idle"
    /\ ret["cfg"].op = "apply"
    /\ ret["cfg"].err = "nil"
    /\ ops.setups = 2
    /\ Loggers[Root].Threshold = Error
    /\ \E n \in 2..nodes :
          /\ Loggers[n].parent = Root
          /\ n \notin explicit
          /\ Loggers[n].Threshold = Info

\* C26: configuration state only accumulates. No step removes an Outputter
\* from the output list of a node, sets a NoPropagate flag back to false,
\* sets a threshold that is not Undefined back to Undefined, takes a node
\* out of the tree (its parent and the entries of every child map stay), or
\* sets configured back to false.
StateOnlyAccumulates ==
    [][/\ nodes' >= nodes
       /\ configured => configured'
       /\ \A n \in 1..nodes :
             /\ Len(Loggers'[n].outputs) >= Len(Loggers[n].outputs)
             /\ \A i \in 1..Len(Loggers[n].outputs) :
                   Loggers'[n].outputs[i] = Loggers[n].outputs[i]
             /\ Loggers[n].NoPropagate => Loggers'[n].NoPropagate
             /\ Loggers[n].Threshold # Undefined =>
                   Loggers'[n].Threshold # Undefined
             /\ Loggers'[n].parent = Loggers[n].parent
             /\ \A k \in DOMAIN Loggers[n].children :
                   /\ k \in DOMAIN Loggers'[n].children
                   /\ Loggers'[n].children[k] = Loggers[n].children[k]]_vars

\* `A = WARN,mock,nopropagate` was applied and then `A = INFO`: A has the
\* new level and still has NoPropagate and the output
StateOnlyAccumulatesWitness ==
    /\ pc["cfg"] = "idle"
    /\ ops.setups = 2
    /\ ret["cfg"].op = "apply"
    /\ ret["cfg"].err = "nil"
    /\ ret["cfg"].c = cfgOpen
    /\ configured
    /\ \E n \in 2..nodes :
          /\ path[n] = <<sA>>
          /\ Loggers[n].Threshold = Info
          /\ Loggers[n].NoPropagate
          /\ Loggers[n].outputs = <<MsgSlice("logs")>>

\* the logger reached from n by following the parent pointer k times
RECURSIVE Up(_, _)
Up(n, k) ==
    IF k = 0 \/ n = Nil THEN n ELSE Up(Loggers[n].parent, k - 1)

\* the places where n is stored: <<logger, key of its child map>>
StoredAt(n) ==
    {<<m, k>> \in UNION {{m} \X DOMAIN Loggers[m].children : m \in 1..nodes} :
        Loggers[m].children[k] = n}

\* C27: the hierarchy is a tree in every reachable state. The root has no
\* parent and is in no child map; every other node has one parent, a node of
\* the tree, and is stored in the child map of that parent and nowhere else,
\* under one key, its last path component; following the parent pointers
\* from a node never comes back to it and reaches the root, for a node that
\* Get returned in as many steps as the name it was looked up by has parts.
HierarchyIsTree ==
    /\ Loggers[Root].parent = Nil
    /\ StoredAt(Root) = {}
    /\ \A n \in 2..nodes :
          /\ Loggers[n].parent \in 1..nodes
          /\ StoredAt(n) = {<<Loggers[n].parent, path[n][Len(path[n])]>>}
          /\ \A k \in 1..nodes : Up(n, k) # n
          /\ \E k \in 1..nodes : Up(n, k) = Root
    /\ \A p \in returned :
          LET parts == Split(p[1], ".")
          IN /\ Up(p[2], Len(parts)) = Root
             /\ \A k \in 0..(Len(parts) - 1) : Up(p[2], k) # Root
             /\ \A k \in 1..Len(parts) :
                   <<Up(p[2], k), parts[Len(parts) - k + 1]>>
                       \in StoredAt(Up(p[2], k - 1))

\* Get("A.B") has returned a node two steps below the root
HierarchyIsTreeWitness ==
    \E p \in returned :
        /\ p[1] = sAB
        /\ Loggers[p[2]].parent # Root
        /\ Loggers[Loggers[p[2]].parent].parent = Root
        /\ StoredAt(p[2]) = {<<Loggers[p[2]].parent, <<"B">>>>}

\* goroutine t takes a dispatch step: the Outputters of a logger run
DispatchStep(t) ==
    pc[t] = "dolog" /\ <<pc[t], frame[t]>> # <<pc'[t], frame'[t]>>

\* goroutine t takes the step of newOutputterConfig in which the factory of
\* the plugin, plugin.CreateOutputter, runs
FactoryStep(t) ==
    /\ pc[t] = "noc_locked"
    /\ pc'[t] # "noc_locked"
    /\ PluginOf(frame[t].c[frame[t].key]) # NoPlugin

\* C28: the global lock is held only for map and pointer manipulation.
\* Whenever code of an Outputter or of a plugin factory runs for the library
\* (Output during dispatch, CreateOutputter during apply), the goroutine
\* that runs it does not hold the global lock.
LockNotHeldAcrossUserCode ==
    [][\A t \in Threads :
          (DispatchStep(t) \/ FactoryStep(t)) => lock # t]_vars

\* C29: Get never returns Root. Whatever the name, "root" and the empty
\* name included, the logger Get returns is not Root but a node below it,
\* stored under the last part of the name, whereas the step of apply for the
\* loggers entry `root` assigns the fields of Root itself and of no other
\* node: what a `root = ...` entry sets is not set on the logger that
\* Get("root") returns.
GetNeverReturnsRoot ==
    [][/\ \A p \in returned' :
             /\ p[2] # Root
             /\ \E k \in 1..nodes' : Up(p[2], k)' = Root
       /\ \A t \in Threads :
             (SetStep(t) /\ frame[t].name = sRoot) =>
                 /\ frame[t].logger = Root
                 /\ \A n \in 2..nodes : Loggers'[n] = Loggers[n]
                 /\ \A p \in returned : Loggers'[p[2]] = Loggers[p[2]]]_vars

\* Get("root") and Get("") have returned two children of the root, keyed
\* "root" and "", and `root = INFO,mock` has put the output on the root and
\* on neither of them
GetNeverReturnsRootWitness ==
    \E p, q \in returned :
        /\ p[1] = sRoot
        /\ q[1] = <<>>
        /\ p[2] # q[2]
        /\ Loggers[Root].children[sRoot] = p[2]
        /\ Loggers[Root].children[<<>>] = q[2]
        /\ Loggers[Root].outputs = <<MsgSlice("logs")>>
        /\ Loggers[p[2]].outputs = <<>>
        /\ Loggers[q[2]].outputs = <<>>
        /\ ret["cfg"].op = "apply"
        /\ ret["cfg"].err = "nil"

====
